---- MODULE Spec2Model ----
(***************************************************************************)
(* A model of include/verify.hpp: the verify(x) macro, the capture         *)
(* pipeline decompose -> FirstOperand -> SecondOperand -> finish(), the    *)
(* expression nodes, the Decomposition / NegatedDecomposition results and  *)
(* their printing, together with the callers' globals of                   *)
(* tests/verify.test.cpp (a, b, foo(), bar() and the call counters).       *)
(***************************************************************************)
EXTENDS Integers, Sequences, FiniteSets

\* ---------------------------------------------------------------- bounds
MaxVal == 2          \* the small operand values are 0..MaxVal
MaxResults == 3      \* result objects alive at the same time
MaxCalls == 2        \* cap on foo_calls / bar_calls

\* Values the callers assign to an int operand.
Values == 0 .. MaxVal

\* ---------------------------------------------------------------- state
VARIABLES
    a, b,                   \* the callers' lvalue operands (verify.test.cpp:59-60)
    foo_calls, bar_calls,   \* verify.test.cpp:140-141
    tmp,                    \* storage of the temporaries of a verify statement
    pc,                     \* position in the verify statement
    stmt,                   \* the expression x written in verify(x)
    opnd,                   \* the operands of x evaluated so far (a reference each)
    cap,                    \* the capture object: decompose / FirstOperand / SecondOperand
    evals,                  \* evaluate() calls made by the statement in progress
    expected,               \* operand calls the verify statements written so far ask for
    results,                \* the Decomposition / NegatedDecomposition objects alive
    os,                     \* the text streamed into the caller's ostream
    cond                    \* the outcome of the last conversion to bool

vars == <<a, b, foo_calls, bar_calls, tmp, pc, stmt, opnd, cap, evals,
          expected, results, os, cond>>

\* ------------------------------------------------------ comparator tags
\* EQ::evaluate .. GT::evaluate
ComparisonEvaluate(tag, op1, op2) ==
    CASE tag = "EQ" -> op1 = op2
      [] tag = "NE" -> op1 /= op2
      [] tag = "LE" -> op1 <= op2
      [] tag = "GE" -> op1 >= op2
      [] tag = "LT" -> op1 < op2
      [] tag = "GT" -> op1 > op2

\* GE streamed with the glyph of GT
ComparisonStream_GeAsGt(tag) ==
    CASE tag = "EQ" -> " == "
      [] tag = "NE" -> " != "
      [] tag = "LE" -> " <= "
      [] tag = "GE" -> " > "
      [] tag = "LT" -> " < "
      [] tag = "GT" -> " > "

\* operator<<(ostream &, const EQ) .. operator<<(ostream &, const GT)
ComparisonStream(tag) ==
    CASE tag = "EQ" -> " == "
      [] tag = "NE" -> " != "
      [] tag = "LE" -> " <= "
      [] tag = "GE" -> " >= "
      [] tag = "LT" -> " < "
      [] tag = "GT" -> " > "

\* ------------------------------------------------------------- operands
NoRef == "none"
Lvalues == {"a", "b"}
Slots == {"tmp1", "tmp2"}
Slot(k) == IF k = 1 THEN "tmp1" ELSE "tmp2"

\* What a const T & operand refers to, read now.
Deref(ref) == CASE ref = "a" -> a
                [] ref = "b" -> b
                [] OTHER -> tmp[ref]

\* ostream << int (and << bool without boolalpha): the decimal digits.
Digit(d) == CASE d = 0 -> "0" [] d = 1 -> "1" [] d = 2 -> "2" [] d = 3 -> "3"
              [] d = 4 -> "4" [] d = 5 -> "5" [] d = 6 -> "6" [] d = 7 -> "7"
              [] d = 8 -> "8" [] d = 9 -> "9"

RECURSIVE StreamInt(_)
StreamInt(n) == IF n < 0 THEN "-" \o StreamInt(-n)
                ELSE IF n < 10 THEN Digit(n)
                ELSE StreamInt(n \div 10) \o Digit(n % 10)

\* ostream << boolalpha << bool
StreamBool(v) == IF v THEN "true" ELSE "false"

\* ----------------------------------------------------- expression nodes
\* UnaryExpression<T>(op)
UnaryExpression(op) == [kind |-> "unary", operand1 |-> op, cmp |-> "none", operand2 |-> NoRef]

\* BinaryExpression<L, Comparison, R>(op1, op2)
BinaryExpression(op1, c, op2) == [kind |-> "binary", operand1 |-> op1, cmp |-> c, operand2 |-> op2]

\* UnaryExpression::evaluate comparing the operand with true
ExpressionEvaluate_UnaryIsOne(x) ==
    IF x.kind = "unary" THEN Deref(x.operand1) = 1
    ELSE ComparisonEvaluate(x.cmp, Deref(x.operand1), Deref(x.operand2))

\* UnaryExpression::evaluate / BinaryExpression::evaluate
ExpressionEvaluate(x) ==
    IF x.kind = "unary" THEN Deref(x.operand1) /= 0
    ELSE ComparisonEvaluate(x.cmp, Deref(x.operand1), Deref(x.operand2))

\* operator<<(ostream &, const UnaryExpression &) / (.., const BinaryExpression &)
ExpressionStream(x) ==
    IF x.kind = "unary" THEN StreamInt(Deref(x.operand1))
    ELSE StreamInt(Deref(x.operand1)) \o ComparisonStream(x.cmp) \o StreamInt(Deref(x.operand2))

\* ------------------------------------------------------ result objects
\* Decomposition<Expression>(s, x, v)
Decomposition(s, x, v) == [code |-> s, expression |-> x, value |-> v, negated |-> FALSE]

\* NegatedDecomposition<Expression>(s, x, v)
NegatedDecomposition(s, x, v) == [code |-> s, expression |-> x, value |-> v, negated |-> TRUE]

\* make_decomposition(code, x)
make_decomposition(code, x) == Decomposition(code, x, ExpressionEvaluate(x))

\* NegatedDecomposition::operator! returning a NegatedDecomposition again
OperatorNot_StaysNegated(r) == NegatedDecomposition(r.code, r.expression, r.value)

\* operator! handing the complemented value to the constructor
OperatorNot_FlipsValue(r) ==
    IF r.negated THEN Decomposition(r.code, r.expression, ~r.value)
    ELSE NegatedDecomposition(r.code, r.expression, ~r.value)

\* Decomposition::operator! / NegatedDecomposition::operator!
OperatorNot(r) ==
    IF r.negated THEN Decomposition(r.code, r.expression, r.value)
    ELSE NegatedDecomposition(r.code, r.expression, r.value)

\* operator bool evaluating the expression again instead of reading value
OperatorBool_Reevaluates(r) ==
    IF r.negated THEN ~ExpressionEvaluate(r.expression) ELSE ExpressionEvaluate(r.expression)

\* Decomposition::operator bool / NegatedDecomposition::operator bool
OperatorBool(r) == IF r.negated THEN ~r.value ELSE r.value

\* the negated printer streaming the stored value
DecompositionStream_NegatedPrintsStored(r) ==
    IF r.negated
    THEN "!verify(" \o r.code \o ") => !verify(" \o ExpressionStream(r.expression)
             \o ") => " \o StreamBool(r.value)
    ELSE "verify(" \o r.code \o ") => verify(" \o ExpressionStream(r.expression)
             \o ") => " \o StreamBool(r.value)

\* operator<<(ostream &, const Decomposition &) /
\* operator<<(ostream &, const NegatedDecomposition &)
DecompositionStream(r) ==
    IF r.negated
    THEN LET value == ~r.value
         IN  "!verify(" \o r.code \o ") => !verify(" \o ExpressionStream(r.expression)
                 \o ") => " \o StreamBool(value)
    ELSE "verify(" \o r.code \o ") => verify(" \o ExpressionStream(r.expression)
             \o ") => " \o StreamBool(r.value)

\* ------------------------------------------------- the written statement
RelationalOperators == {"==", "!=", "<=", ">=", "<", ">"}
UnsupportedOperators == {"<<", ">>", "&&", "||"}

NoStmt == [operand1 |-> "", chain |-> <<>>]

\* The value an operand expression yields (foo() returns a, bar() returns b).
OperandValue(e) == CASE e = "a" -> a
                     [] e = "b" -> b
                     [] e = "foo()" -> a
                     [] e = "bar()" -> b
                     [] e = "true" -> 1
                     [] e = "false" -> 0
                     [] e = "0" -> 0

\* The k-th operand expression of the statement.
OperandExpr(s, k) == IF k = 1 THEN s.operand1 ELSE s.chain[k - 1].operand

\* #x of the macro: the expression as written.
RECURSIVE ChainText(_)
ChainText(chain) == IF chain = <<>> THEN ""
                    ELSE " " \o Head(chain).op \o " " \o Head(chain).operand
                             \o ChainText(Tail(chain))

Stringify(s) == s.operand1 \o ChainText(s.chain)

\* SecondOperand declaring the relational operators as well
CaptureOperators_Chained(type) == RelationalOperators

\* The operators each capture type declares.
CaptureOperators(type) ==
    CASE type = "FirstOperand" -> RelationalOperators
      [] type = "SecondOperand" -> {}

\* Overload resolution along the chain (decompose(#x) << x).finish(): every
\* operator that binds to a capture object has to be declared by its type;
\* finish() is declared by both.
RECURSIVE Compiles(_, _)
Compiles(type, chain) ==
    \/ chain = <<>>
    \/ /\ Head(chain).op \in CaptureOperators(type)
       /\ Compiles("SecondOperand", Tail(chain))

\* operator<= building a SecondOperand<LT, T2>
OperatorTag_LeAsLt(op) ==
    CASE op = "==" -> "EQ"
      [] op = "!=" -> "NE"
      [] op = "<=" -> "LT"
      [] op = ">=" -> "GE"
      [] op = "<"  -> "LT"
      [] op = ">"  -> "GT"

\* FirstOperand::operator== .. operator> : the Comparison of the SecondOperand
OperatorTag(op) ==
    CASE op = "==" -> "EQ"
      [] op = "!=" -> "NE"
      [] op = "<=" -> "LE"
      [] op = ">=" -> "GE"
      [] op = "<"  -> "LT"
      [] op = ">"  -> "GT"

\* -------------------------------------------------------- capture objects
NoCap == [type |-> "none", code |-> "", operand1 |-> NoRef, cmp |-> "none", operand2 |-> NoRef]

\* decompose(code)
decompose(code) == [NoCap EXCEPT !.type = "decompose", !.code = code]

\* decompose::operator<<(op1) -> FirstOperand<T>(code, op1)
FirstOperand(code, op1) == [NoCap EXCEPT !.type = "FirstOperand", !.code = code, !.operand1 = op1]

\* FirstOperand::operator@(op2) -> SecondOperand<C, T2>(code, operand1, op2)
SecondOperand(code, op1, c, op2) ==
    [type |-> "SecondOperand", code |-> code, operand1 |-> op1, cmp |-> c, operand2 |-> op2]

\* SecondOperand::finish building the node of FirstOperand::finish
finish_AlwaysUnary(c) == make_decomposition(c.code, UnaryExpression(c.operand1))

\* FirstOperand::finish / SecondOperand::finish
finish(c) ==
    IF c.type = "FirstOperand"
    THEN make_decomposition(c.code, UnaryExpression(c.operand1))
    ELSE make_decomposition(c.code, BinaryExpression(c.operand1, c.cmp, c.operand2))

\* ------------------------------------------------------------ statements
\* verify(x) as the callers write it: a bare operand, a comparison of the
\* two lvalues, of the two calls, of an lvalue with a literal, and the
\* statements of verify.xfail.cpp together with a chained second comparison.
UnaryStatements == {[operand1 |-> e, chain |-> <<>>] : e \in {"a", "true", "false"}}
BinaryStatements ==
    {[operand1 |-> "a", chain |-> <<[op |-> o, operand |-> "b"]>>] : o \in RelationalOperators}
    \cup {[operand1 |-> "foo()", chain |-> <<[op |-> "<", operand |-> "bar()"]>>],
          [operand1 |-> "a", chain |-> <<[op |-> "!=", operand |-> "0"]>>]}
XfailStatements ==
    {[operand1 |-> "a", chain |-> <<[op |-> o, operand |-> "b"]>>] : o \in UnsupportedOperators}
    \cup
    {[operand1 |-> "a", chain |-> <<[op |-> "<", operand |-> "b"], [op |-> o, operand |-> "b"]>>] :
        o \in {"<", "==", "&&"}}
Statements == UnaryStatements \cup BinaryStatements \cup XfailStatements

\* How often the operand expressions of the statement name the call e.
Occurrences(s, e) ==
    (IF s.operand1 = e THEN 1 ELSE 0)
    + (IF Len(s.chain) >= 1 /\ s.chain[1].operand = e THEN 1 ELSE 0)

NoOperands == [k \in {1, 2} |-> NoRef]
Observing == os /= "" \/ cond /= "none"

Init ==
    /\ \/ a = 1 /\ b = 2        \* verify.test.cpp:59-60
       \/ a = 23 /\ b = 42      \* verify.hpp:12-13
    /\ foo_calls = 0 /\ bar_calls = 0
    /\ tmp = [t \in Slots |-> 0]
    /\ pc = "idle"
    /\ stmt = NoStmt
    /\ opnd = NoOperands
    /\ cap = NoCap
    /\ evals = 0
    /\ expected = [foo |-> 0, bar |-> 0]
    /\ results = <<>>
    /\ os = "" /\ cond = "none"

\* The compiler meets a verify(x) statement: it is rejected, or it starts.
\* The results of one statement are alive at a time.
Begin(s) ==
    /\ pc \in {"idle", "rejected"}
    /\ ~Observing
    /\ results = <<>>
    /\ foo_calls + Occurrences(s, "foo()") <= MaxCalls
    /\ bar_calls + Occurrences(s, "bar()") <= MaxCalls
    /\ stmt' = s
    /\ IF Compiles("FirstOperand", s.chain)
       THEN /\ pc' = "start"
            /\ expected' = [foo |-> expected.foo + Occurrences(s, "foo()"),
                            bar |-> expected.bar + Occurrences(s, "bar()")]
       ELSE /\ pc' = "rejected"
            /\ UNCHANGED expected
    /\ UNCHANGED <<a, b, foo_calls, bar_calls, tmp, opnd, cap, evals, results, os, cond>>

\* decompose(#x)
Construct ==
    /\ pc = "start"
    /\ cap' = decompose(Stringify(stmt))
    /\ pc' = "decompose"
    /\ UNCHANGED <<a, b, foo_calls, bar_calls, tmp, stmt, opnd, evals, expected, results, os, cond>>

\* the macro expanding x a second time
EvalOperand_Twice(k) ==
    /\ opnd[k] = NoRef
    /\ IF k = 1 THEN pc = "decompose"
       ELSE pc \in {"start", "decompose", "first"} /\ Len(stmt.chain) >= 1
    /\ LET e == OperandExpr(stmt, k)
       IN  /\ IF e \in Lvalues
              THEN /\ opnd' = [opnd EXCEPT ![k] = e]
                   /\ UNCHANGED tmp
              ELSE /\ opnd' = [opnd EXCEPT ![k] = Slot(k)]
                   /\ tmp' = [tmp EXCEPT ![Slot(k)] = OperandValue(e)]
           /\ foo_calls' = IF e = "foo()" THEN foo_calls + 2 ELSE foo_calls
           /\ bar_calls' = IF e = "bar()" THEN bar_calls + 2 ELSE bar_calls
    /\ UNCHANGED <<a, b, pc, stmt, cap, evals, expected, results, os, cond>>

\* The k-th operand expression is evaluated: an lvalue is bound as it is, a
\* call or a literal yields a temporary.  The first operand is sequenced
\* after decompose(#x), the second one is not sequenced with the left side
\* of the comparison.
EvalOperand(k) ==
    /\ opnd[k] = NoRef
    /\ IF k = 1 THEN pc = "decompose"
       ELSE pc \in {"start", "decompose", "first"} /\ Len(stmt.chain) >= 1
    /\ LET e == OperandExpr(stmt, k)
       IN  /\ IF e \in Lvalues
              THEN /\ opnd' = [opnd EXCEPT ![k] = e]
                   /\ UNCHANGED tmp
              ELSE /\ opnd' = [opnd EXCEPT ![k] = Slot(k)]
                   /\ tmp' = [tmp EXCEPT ![Slot(k)] = OperandValue(e)]
           /\ foo_calls' = IF e = "foo()" THEN foo_calls + 1 ELSE foo_calls
           /\ bar_calls' = IF e = "bar()" THEN bar_calls + 1 ELSE bar_calls
    /\ UNCHANGED <<a, b, pc, stmt, cap, evals, expected, results, os, cond>>

\* decompose::operator<<
CaptureFirst ==
    /\ pc = "decompose"
    /\ opnd[1] /= NoRef
    /\ cap' = FirstOperand(cap.code, opnd[1])
    /\ pc' = "first"
    /\ UNCHANGED <<a, b, foo_calls, bar_calls, tmp, stmt, opnd, evals, expected, results, os, cond>>

\* FirstOperand::operator==, !=, <=, >=, <, >
CaptureSecond ==
    /\ pc = "first"
    /\ Len(stmt.chain) >= 1
    /\ opnd[2] /= NoRef
    /\ cap' = SecondOperand(cap.code, cap.operand1, OperatorTag(stmt.chain[1].op), opnd[2])
    /\ pc' = "second"
    /\ UNCHANGED <<a, b, foo_calls, bar_calls, tmp, stmt, opnd, evals, expected, results, os, cond>>

\* .finish(): the node is built and evaluated, the result is constructed.
Finish ==
    /\ \/ pc = "first" /\ stmt.chain = <<>>
       \/ pc = "second"
    /\ LET r == finish(cap)
       IN  results' = Append(results, [obj |-> r, live |-> TRUE, negs |-> 0,
                                       v0 |-> r.value, from |-> stmt])
    /\ evals' = evals + 1
    /\ pc' = "full"
    /\ UNCHANGED <<a, b, foo_calls, bar_calls, tmp, stmt, opnd, cap, expected, os, cond>>

\* The full-expression ends: the capture objects and the temporaries are
\* destroyed, the storage of the temporaries holds anything from now on.
EndFullExpression ==
    /\ pc = "full"
    /\ ~Observing
    /\ \E t \in [Slots -> Values] :
          /\ \A k \in {1, 2} : opnd[k] /= Slot(k) => t[Slot(k)] = tmp[Slot(k)]
          /\ tmp' = t
    /\ results' = [i \in DOMAIN results |-> [results[i] EXCEPT !.live = FALSE]]
    /\ pc' = "idle"
    /\ stmt' = NoStmt
    /\ opnd' = NoOperands
    /\ cap' = NoCap
    /\ evals' = 0
    /\ UNCHANGED <<a, b, foo_calls, bar_calls, expected, os, cond>>

\* !r, kept as a further result
Negate(i) ==
    /\ pc \in {"idle", "full"}
    /\ ~Observing
    /\ Len(results) < MaxResults
    /\ results' = Append(results, [results[i] EXCEPT !.obj = OperatorNot(results[i].obj),
                                                     !.negs = @ + 1])
    /\ UNCHANGED <<a, b, foo_calls, bar_calls, tmp, pc, stmt, opnd, cap, evals, expected, os, cond>>

\* os << r, for the newest result
Stream ==
    /\ pc \in {"idle", "full"}
    /\ ~Observing
    /\ results /= <<>>
    /\ os' = DecompositionStream(results[Len(results)].obj)
    /\ UNCHANGED <<a, b, foo_calls, bar_calls, tmp, pc, stmt, opnd, cap, evals, expected, results, cond>>

\* if (r), CHECK(r), for the newest result
ToBool ==
    /\ pc \in {"idle", "full"}
    /\ ~Observing
    /\ results /= <<>>
    /\ cond' = StreamBool(OperatorBool(results[Len(results)].obj))
    /\ UNCHANGED <<a, b, foo_calls, bar_calls, tmp, pc, stmt, opnd, cap, evals, expected, results, os>>

\* The caller is done with the text or the condition.
Consume ==
    /\ Observing
    /\ os' = "" /\ cond' = "none"
    /\ UNCHANGED <<a, b, foo_calls, bar_calls, tmp, pc, stmt, opnd, cap, evals, expected, results>>

\* The caller assigns to one of its lvalues between two statements.
AssignA(v) ==
    /\ pc = "idle" /\ ~Observing
    /\ v /= a
    /\ a' = v
    /\ UNCHANGED <<b, foo_calls, bar_calls, tmp, pc, stmt, opnd, cap, evals, expected, results, os, cond>>

AssignB(v) ==
    /\ pc = "idle" /\ ~Observing
    /\ v /= b
    /\ b' = v
    /\ UNCHANGED <<a, foo_calls, bar_calls, tmp, pc, stmt, opnd, cap, evals, expected, results, os, cond>>

\* The results go out of scope, and so does the storage their statement used.
EndScope ==
    /\ pc = "idle" /\ ~Observing
    /\ results /= <<>>
    /\ results' = <<>>
    /\ tmp' = [t \in Slots |-> 0]
    /\ UNCHANGED <<a, b, foo_calls, bar_calls, pc, stmt, opnd, cap, evals, expected, os, cond>>

\* foo_calls = 0; bar_calls = 0;
ResetCalls ==
    /\ pc = "idle" /\ ~Observing
    /\ foo_calls + bar_calls > 0
    /\ foo_calls' = 0 /\ bar_calls' = 0
    /\ expected' = [foo |-> 0, bar |-> 0]
    /\ UNCHANGED <<a, b, tmp, pc, stmt, opnd, cap, evals, results, os, cond>>

Next ==
    \/ \E s \in Statements : Begin(s)
    \/ Construct
    \/ \E k \in {1, 2} : EvalOperand(k)
    \/ CaptureFirst
    \/ CaptureSecond
    \/ Finish
    \/ EndFullExpression
    \/ \E i \in DOMAIN results : Negate(i)
    \/ Stream
    \/ ToBool
    \/ Consume
    \/ \E v \in Values : AssignA(v)
    \/ \E v \in Values : AssignB(v)
    \/ EndScope
    \/ ResetCalls

Spec == Init /\ [][Next]_vars

\* ------------------------------------------------------------ properties
\* What the comparison written as op means on the operands themselves.
NativeCompare(op, x, y) ==
    CASE op = "==" -> x = y
      [] op = "!=" -> x /= y
      [] op = "<=" -> ~(y < x)
      [] op = ">=" -> ~(x < y)
      [] op = "<"  -> x < y
      [] op = ">"  -> y < x

\* The storage the k-th operand of a statement is bound to.
WrittenRef(s, k) == IF OperandExpr(s, k) \in Lvalues THEN OperandExpr(s, k) ELSE Slot(k)

\* The value the k-th operand of a statement holds now.
OperandNow(s, k) == Deref(WrittenRef(s, k))

\* The decomposed text of a statement: the operands, and the operator as written.
DecomposedText(s) ==
    IF s.chain = <<>> THEN StreamInt(OperandNow(s, 1))
    ELSE StreamInt(OperandNow(s, 1)) \o " " \o s.chain[1].op \o " " \o StreamInt(OperandNow(s, 2))

Odd(n) == n % 2 = 1
IsUnary(s) == s.chain = <<>>
IsBinary(s) == Len(s.chain) = 1
Text(v) == IF v THEN "true" ELSE "false"

\* C1: for every pair of operand values and each of the six comparators, the
\* result of decompose(text) << x, the comparator with y, and finish()
\* converts to the bool that the native comparison of x and y gives.
C1_ComparisonIsNative ==
    \A i \in DOMAIN results :
        LET r == results[i]
        IN  (r.live /\ r.negs = 0 /\ IsBinary(r.from)) =>
               /\ OperatorBool(r.obj)
                    = NativeCompare(r.from.chain[1].op, OperandNow(r.from, 1), OperandNow(r.from, 2))
               /\ (i = Len(results) /\ cond /= "none") =>
                    cond = Text(NativeCompare(r.from.chain[1].op, OperandNow(r.from, 1),
                                              OperandNow(r.from, 2)))

C1_Witness ==
    /\ pc = "full" /\ cond = "true"
    /\ Len(results) = 1 /\ results[1].live
    /\ results[1].from = [operand1 |-> "a", chain |-> <<[op |-> "<=", operand |-> "b"]>>]
    /\ a = 2 /\ b = 2

\* C2: every operand expression is evaluated exactly once per verify
\* statement: once a statement has produced its result the call counters
\* equal the number of calls the statements written so far contain, whatever
\* was converted, negated or printed since, and never exceed it before.
C2_OperandsEvaluatedOnce ==
    /\ foo_calls <= expected.foo /\ bar_calls <= expected.bar
    /\ pc \in {"idle", "full"} => foo_calls = expected.foo /\ bar_calls = expected.bar

C2_Witness ==
    /\ foo_calls = 2 /\ bar_calls = 2
    /\ Len(results) = 3
    /\ results[1].from.operand1 = "foo()"
    /\ results[3].negs = 2
    /\ os /= ""

\* C3: double negation is the identity: !!R converts to the same bool, prints
\* the same text and is of the same kind as R, for plain and for negated R;
\* results that are an even number of negations apart agree, and a result is
\* negated iff it is an odd number of negations away from finish().
C3_DoubleNegation ==
    /\ \A i \in DOMAIN results :
          LET r == results[i].obj
              rr == OperatorNot(OperatorNot(r))
          IN  /\ OperatorBool(rr) = OperatorBool(r)
              /\ DecompositionStream(rr) = DecompositionStream(r)
              /\ rr.negated = r.negated
              /\ r.negated <=> Odd(results[i].negs)
    /\ \A i, j \in DOMAIN results :
          Odd(results[i].negs) = Odd(results[j].negs) =>
              /\ OperatorBool(results[i].obj) = OperatorBool(results[j].obj)
              /\ DecompositionStream(results[i].obj) = DecompositionStream(results[j].obj)
              /\ results[i].obj.negated = results[j].obj.negated

C3_Witness ==
    /\ Len(results) = 3
    /\ results[1].negs = 0 /\ results[2].negs = 1 /\ results[3].negs = 2
    /\ os = DecompositionStream(results[1].obj)
    /\ ~results[3].obj.negated

\* C4: negating a result gives one that converts to the complement and
\* prints "!verify(" source ") => !verify(" decomposed ") => " complement;
\* for "a < b" with a = 23, b = 42 that is
\* "!verify(a < b) => !verify(23 < 42) => false".  The printed boolean of a
\* negated result is its conversion to bool.
C4_NegatedResult ==
    \A i \in DOMAIN results :
        LET r == results[i]
            n == OperatorNot(r.obj)
        IN  /\ OperatorBool(n) = ~OperatorBool(r.obj)
            /\ ~r.obj.negated =>
                  DecompositionStream(n)
                     = "!verify(" \o Stringify(r.from) \o ") => !verify(" \o DecomposedText(r.from)
                          \o ") => " \o Text(~OperatorBool(r.obj))
            /\ Odd(r.negs) =>
                  /\ DecompositionStream(r.obj)
                       = "!verify(" \o Stringify(r.from) \o ") => !verify(" \o DecomposedText(r.from)
                            \o ") => " \o Text(OperatorBool(r.obj))
                  /\ (i = Len(results) /\ os /= "") => os = DecompositionStream(r.obj)
                  /\ (Stringify(r.from) = "a < b" /\ a = 23 /\ b = 42) =>
                        DecompositionStream(r.obj) = "!verify(a < b) => !verify(23 < 42) => false"

C4_Witness ==
    /\ Len(results) = 2
    /\ results[2].obj.negated
    /\ os = "!verify(a < b) => !verify(23 < 42) => false"

\* C5: a plain result prints "verify(" source ") => verify(" decomposed
\* ") => " true|false, the decomposed text being the operand, or operand1,
\* the glyph of the comparator that was applied, and operand2; the printed
\* boolean is the result's conversion to bool.
C5_PlainResultText ==
    \A i \in DOMAIN results :
        LET r == results[i]
        IN  ~Odd(r.negs) =>
               /\ DecompositionStream(r.obj)
                    = "verify(" \o Stringify(r.from) \o ") => verify(" \o DecomposedText(r.from)
                         \o ") => " \o Text(OperatorBool(r.obj))
               /\ (i = Len(results) /\ os /= "") => os = DecompositionStream(r.obj)
               /\ (Stringify(r.from) = "a < b" /\ a = 23 /\ b = 42) =>
                     DecompositionStream(r.obj) = "verify(a < b) => verify(23 < 42) => true"

C5_Witness ==
    /\ Len(results) = 1
    /\ results[1].from.chain /= <<>> /\ results[1].from.chain[1].op = ">="
    /\ os = "verify(a >= b) => verify(2 >= 1) => true"

\* A chain the pipeline supports: no operator, or one relational operator.
Supported(s) == IsUnary(s) \/ (IsBinary(s) /\ s.chain[1].op \in RelationalOperators)

\* C6: an expression whose operator at the capture boundary is <<, >>, && or
\* ||, or that applies a second comparison, is rejected before anything is
\* evaluated: no operand is bound, no capture object exists, no comparison
\* is evaluated, no result is produced.
C6_UnsupportedRejected ==
    (stmt /= NoStmt /\ ~Supported(stmt)) =>
        /\ pc = "rejected"
        /\ opnd = NoOperands /\ cap = NoCap
        /\ evals = 0 /\ results = <<>>

C6_Witness ==
    /\ pc = "rejected"
    /\ stmt = [operand1 |-> "a", chain |-> <<[op |-> "<", operand |-> "b"], [op |-> "==", operand |-> "b"]>>]
    /\ foo_calls = 1

\* C7: a unary decomposition reports the truthiness of its operand: verify(v)
\* converts to v and !verify(v) to !v; a falsy operand x prints
\* "verify(x) => verify(<printed x>) => false".
C7_UnaryTruthiness ==
    \A i \in DOMAIN results :
        LET r == results[i]
            x == OperandNow(r.from, 1)
        IN  (r.live /\ IsUnary(r.from)) =>
               /\ OperatorBool(r.obj) = IF Odd(r.negs) THEN x = 0 ELSE x /= 0
               /\ r.from.operand1 = "true" => OperatorBool(r.obj) = ~Odd(r.negs)
               /\ r.from.operand1 = "false" => OperatorBool(r.obj) = Odd(r.negs)
               /\ (r.negs = 0 /\ x = 0) =>
                     DecompositionStream(r.obj)
                        = "verify(" \o r.from.operand1 \o ") => verify(" \o StreamInt(x) \o ") => false"
               /\ (i = Len(results) /\ os /= "") => os = DecompositionStream(r.obj)

C7_Witness ==
    /\ pc = "full" /\ Len(results) = 1
    /\ results[1].live
    /\ os = "verify(false) => verify(0) => false"

\* C8: negation is a pure toggle: a step that negates a result adds a result
\* with the same source text, expression node and stored value and the other
\* kind, calls no evaluate(), and leaves every existing result and every
\* operand as it was; so the stored value of every result is the boolean
\* computed at finish().
C8_NegationPureToggle ==
    [][ /\ (Len(results) >= 1 /\ Len(results') = Len(results) + 1) =>
              /\ SubSeq(results', 1, Len(results)) = results
              /\ evals' = evals
              /\ UNCHANGED <<a, b, tmp, foo_calls, bar_calls>>
              /\ \E i \in DOMAIN results :
                    LET old == results[i]
                        new == results'[Len(results')]
                    IN  /\ new.negs = old.negs + 1
                        /\ new.obj.code = old.obj.code
                        /\ new.obj.expression = old.obj.expression
                        /\ new.obj.value = old.obj.value
                        /\ new.obj.negated = ~old.obj.negated
        /\ \A i \in DOMAIN results' : results'[i].obj.value = results'[i].v0
      ]_vars

C8_Witness ==
    /\ Len(results) = 3
    /\ results[2].negs = 1 /\ results[3].negs = 2
    /\ results[3].obj.value = results[1].obj.value
    /\ results[3].obj.expression = results[1].obj.expression
    /\ ~results[3].live

\* C9: evaluation is deferred to finish(): while the statement constructs
\* decompose, captures the operands and applies the operator, nothing is
\* evaluated and no result exists; finish() evaluates exactly once, with all
\* operands bound, a unary node from a FirstOperand and a binary node from a
\* SecondOperand, carrying the comparator of the operator that was applied.
C9_EvaluationDeferred ==
    /\ pc \in {"start", "decompose", "first", "second"} => evals = 0 /\ results = <<>>
    /\ pc \in {"idle", "rejected"} => evals = 0
    /\ pc = "full" =>
          /\ evals = 1
          /\ opnd[1] = WrittenRef(stmt, 1)
          /\ LET x == results[1].obj.expression
             IN  IF IsUnary(stmt)
                 THEN /\ cap.type = "FirstOperand"
                      /\ x.kind = "unary"
                      /\ x.operand1 = opnd[1]
                 ELSE /\ cap.type = "SecondOperand"
                      /\ opnd[2] = WrittenRef(stmt, 2)
                      /\ x.kind = "binary"
                      /\ x.operand1 = opnd[1] /\ x.operand2 = opnd[2]
                      /\ ComparisonStream(x.cmp) = " " \o stmt.chain[1].op \o " "
                      /\ \A u, v \in Values :
                            ComparisonEvaluate(x.cmp, u, v) = NativeCompare(stmt.chain[1].op, u, v)

C9_Witness ==
    /\ pc = "full" /\ evals = 1
    /\ Stringify(stmt) = "foo() < bar()"
    /\ results[1].obj.expression = [kind |-> "binary", operand1 |-> "tmp1", cmp |-> "LT", operand2 |-> "tmp2"]

\* The value of an operand expression of a statement, read from the callers'
\* variables where it is an lvalue.
ShownNow(s, k) ==
    LET e == OperandExpr(s, k)
    IN  IF e = "a" THEN a ELSE IF e = "b" THEN b ELSE tmp[Slot(k)]

\* C10: a result stores its boolean by value and its operands by reference:
\* after the operands change, the result and its negations still convert to
\* and print the boolean computed at finish(), while the printed operands
\* are the current ones, so the two need not agree.
C10_ValueStoredOperandsReferenced ==
    \A i \in DOMAIN results :
        LET r == results[i]
            s == r.from
            v == IF Odd(r.negs) THEN ~r.v0 ELSE r.v0
            bang == IF Odd(r.negs) THEN "!" ELSE ""
            shown == IF IsUnary(s) THEN StreamInt(ShownNow(s, 1))
                     ELSE StreamInt(ShownNow(s, 1)) \o " " \o s.chain[1].op \o " "
                              \o StreamInt(ShownNow(s, 2))
        IN  /\ OperatorBool(r.obj) = v
            /\ DecompositionStream(r.obj)
                 = bang \o "verify(" \o Stringify(s) \o ") => " \o bang \o "verify(" \o shown
                      \o ") => " \o Text(v)
            /\ (i = Len(results) /\ os /= "") => os = DecompositionStream(r.obj)
            /\ (i = Len(results) /\ cond /= "none") => cond = Text(v)

C10_Witness ==
    /\ Len(results) = 1 /\ ~results[1].live
    /\ results[1].v0
    /\ a = 2 /\ b = 1
    /\ os = "verify(a < b) => verify(2 < 1) => true"

====
